---- MODULE Spec2Model ----
(***************************************************************************)
(* Model of app.py, the Threat Engineer Resume Screener.                   *)
(*                                                                         *)
(* Texts are sequences of one-character strings.  Python dicts are         *)
(* functions from category names to sequences of terms.  A score, the      *)
(* Python value (matched / total) * 100, is kept as the exact rational     *)
(* [num, den] in lowest terms; binary floating-point rounding of that      *)
(* value is not modelled.                                                  *)
(***************************************************************************)
EXTENDS Integers, Sequences, FiniteSets, TLC

\* ------------------------------------------------------------------------
\* Characters and str methods
\* ------------------------------------------------------------------------

UpperLetters ==
  <<"A","B","C","D","E","F","G","H","I","J","K","L","M",
    "N","O","P","Q","R","S","T","U","V","W","X","Y","Z">>

LowerLetters ==
  <<"a","b","c","d","e","f","g","h","i","j","k","l","m",
    "n","o","p","q","r","s","t","u","v","w","x","y","z">>

Digits == {"0","1","2","3","4","5","6","7","8","9"}

\* the characters the pattern \s matches
Whitespace == {" ", "\n", "\t"}

Range(s) == {s[i] : i \in 1..Len(s)}

\* str.lower() on one character
LowerChar(c) ==
  IF \E i \in 1..Len(UpperLetters) : UpperLetters[i] = c
    THEN LowerLetters[CHOOSE i \in 1..Len(UpperLetters) : UpperLetters[i] = c]
    ELSE c

\* str.lower()
Lower(s) == [i \in 1..Len(s) |-> LowerChar(s[i])]

\* the characters the class [^a-z0-9\s.\-+#] does not match, i.e. those kept
KeptChars == Range(LowerLetters) \cup Digits \cup Whitespace \cup {".", "-", "+", "#"}

IsKept(c) == c \in KeptChars

\* re.sub(r'[^a-z0-9\s.\-+#]', '', text)
RemovePunctuation(s) == SelectSeq(s, IsKept)

RECURSIVE LStrip(_)
\* str.lstrip()
LStrip(s) ==
  IF s = <<>> THEN <<>>
  ELSE IF Head(s) \in Whitespace THEN LStrip(Tail(s)) ELSE s

RECURSIVE RStrip(_)
\* str.rstrip()
RStrip(s) ==
  IF s = <<>> THEN <<>>
  ELSE IF s[Len(s)] \in Whitespace THEN RStrip(SubSeq(s, 1, Len(s) - 1)) ELSE s

\* str.strip()
Strip(s) == RStrip(LStrip(s))

RECURSIVE CollapseWhitespace(_)
\* re.sub(r'\s+', ' ', text)
CollapseWhitespace(s) ==
  IF s = <<>> THEN <<>>
  ELSE IF Head(s) \in Whitespace
    THEN <<" ">> \o CollapseWhitespace(LStrip(s))
    ELSE <<Head(s)>> \o CollapseWhitespace(Tail(s))

\* the value None where a text is expected
None == <<"None">>

\* Python truthiness of a text: "not text"
Falsy(text) == text = None \/ text = <<>>

\* clean_text(text)
clean_text(text) ==
  IF Falsy(text) THEN <<>>
  ELSE Strip(CollapseWhitespace(RemovePunctuation(Lower(text))))

\* "sub in text" on str
Contains(text, sub) ==
  \E i \in 0..(Len(text) - Len(sub)) : SubSeq(text, i + 1, i + Len(sub)) = sub

\* ------------------------------------------------------------------------
\* Scores
\* ------------------------------------------------------------------------

RECURSIVE GCD(_, _)
GCD(a, b) == IF b = 0 THEN a ELSE GCD(b, a % b)

\* the rational n / d, d > 0, in lowest terms
Ratio(n, d) == LET g == GCD(n, d) IN [num |-> n \div g, den |-> d \div g]

\* the literal 0 of "else 0" and of the early return
Zero == [num |-> 0, den |-> 1]

\* the outcome of a division by zero
ZeroDivisionError == [num |-> 0, den |-> 0]

\* the division with its operands exchanged: (total / matched) * 100
TrueDivTimes100_Swapped(matched, total) ==
  IF matched = 0 THEN ZeroDivisionError ELSE Ratio(100 * total, matched)

\* (matched / total) * 100
TrueDivTimes100(matched, total) ==
  IF total = 0 THEN ZeroDivisionError ELSE Ratio(100 * matched, total)

\* (matched_in_category / total_in_category) * 100 if total_in_category > 0 else 0
CategoryScore(matched_in_category, total_in_category) ==
  IF total_in_category > 0
    THEN TrueDivTimes100(matched_in_category, total_in_category)
    ELSE Zero

\* the overall score without its guard against an empty total
OverallScore_Unguarded(total_matched_requirements, total_possible_requirements) ==
  IF total_possible_requirements = 0 THEN ZeroDivisionError
  ELSE Ratio(100 * total_matched_requirements, total_possible_requirements)

\* the overall score as the share of one requirement, the total left out of
\* the division
OverallScore_Undivided(total_matched_requirements, total_possible_requirements) ==
  IF total_possible_requirements > 0
    THEN Ratio(100 * total_matched_requirements, 1)
    ELSE Zero

\* (total_matched_requirements / total_possible_requirements) * 100
\*   if total_possible_requirements > 0 else 0
OverallScore(total_matched_requirements, total_possible_requirements) ==
  IF total_possible_requirements > 0
    THEN TrueDivTimes100(total_matched_requirements, total_possible_requirements)
    ELSE Zero

\* a <= b on scores
ScoreLeq(a, b) == a.num * b.den <= b.num * a.den

\* score >= n for an integer n
ScoreGeqInt(score, n) == score.num >= n * score.den

\* ------------------------------------------------------------------------
\* analyze_and_score_resume
\* ------------------------------------------------------------------------

\* the empty dict {}
EmptyMap == << >>

\* the presence test without lower(): "req in cleaned_resume_text"
IsPresent_CaseSensitive(req, cleaned_resume_text) == Contains(cleaned_resume_text, req)

\* the presence test as equality: "req.lower() == cleaned_resume_text"
IsPresent_WholeText(req, cleaned_resume_text) == cleaned_resume_text = Lower(req)

\* "req.lower() in cleaned_resume_text"
IsPresent(req, cleaned_resume_text) == Contains(cleaned_resume_text, Lower(req))

RECURSIVE MatchLoop_NoElse(_, _, _)
\* the loop without its else: every req is appended to gaps
MatchLoop_NoElse(requirements, cleaned_resume_text, acc) ==
  IF requirements = <<>> THEN acc
  ELSE LET req == Head(requirements) IN
    IF Contains(cleaned_resume_text, Lower(req))
      THEN MatchLoop_NoElse(Tail(requirements), cleaned_resume_text,
             [strengths |-> Append(acc.strengths, req),
              gaps |-> Append(acc.gaps, req),
              matched_in_category |-> acc.matched_in_category + 1])
      ELSE MatchLoop_NoElse(Tail(requirements), cleaned_resume_text,
             [strengths |-> acc.strengths,
              gaps |-> Append(acc.gaps, req),
              matched_in_category |-> acc.matched_in_category])

RECURSIVE MatchLoop(_, _, _)
\* "for req in requirements": appends req to strengths or to gaps
MatchLoop(requirements, cleaned_resume_text, acc) ==
  IF requirements = <<>> THEN acc
  ELSE LET req == Head(requirements) IN
    IF IsPresent(req, cleaned_resume_text)
      THEN MatchLoop(Tail(requirements), cleaned_resume_text,
             [strengths |-> Append(acc.strengths, req),
              gaps |-> acc.gaps,
              matched_in_category |-> acc.matched_in_category + 1])
      ELSE MatchLoop(Tail(requirements), cleaned_resume_text,
             [strengths |-> acc.strengths,
              gaps |-> Append(acc.gaps, req),
              matched_in_category |-> acc.matched_in_category])

\* strengths[category] = [], gaps[category] = [], matched_in_category = 0
EmptyAcc == [strengths |-> <<>>, gaps |-> <<>>, matched_in_category |-> 0]

RECURSIVE SumOver(_, _)
\* the running totals "+=" over the categories of the dict
SumOver(f, S) ==
  IF S = {} THEN 0
  ELSE LET c == CHOOSE x \in S : TRUE IN f[c] + SumOver(f, S \ {c})

\* a returned tuple (category_scores, overall_score, strengths, gaps)
Returned(category_scores, overall_score, strengths, gaps) ==
  [exception |-> "none",
   category_scores |-> category_scores,
   overall_score |-> overall_score,
   strengths |-> strengths,
   gaps |-> gaps]

\* an evaluation that ended in an exception
Raised(e) ==
  [exception |-> e,
   category_scores |-> EmptyMap,
   overall_score |-> ZeroDivisionError,
   strengths |-> EmptyMap,
   gaps |-> EmptyMap]

\* analyze_and_score_resume(resume_text, jd_requirements)
analyze_and_score_resume(resume_text_, jd_requirements_) ==
  IF Falsy(resume_text_) \/ DOMAIN jd_requirements_ = {}
    THEN Returned(EmptyMap, Zero, EmptyMap, EmptyMap)
  ELSE
    LET cleaned_resume_text == clean_text(resume_text_)
        loop == [category \in DOMAIN jd_requirements_ |->
                   MatchLoop(jd_requirements_[category], cleaned_resume_text, EmptyAcc)]
        strengths == [category \in DOMAIN jd_requirements_ |-> loop[category].strengths]
        gaps == [category \in DOMAIN jd_requirements_ |-> loop[category].gaps]
        category_scores ==
          [category \in DOMAIN jd_requirements_ |->
             CategoryScore(loop[category].matched_in_category,
                           Len(jd_requirements_[category]))]
        total_possible_requirements ==
          SumOver([category \in DOMAIN jd_requirements_ |-> Len(jd_requirements_[category])],
                  DOMAIN jd_requirements_)
        total_matched_requirements ==
          SumOver([category \in DOMAIN jd_requirements_ |-> loop[category].matched_in_category],
                  DOMAIN jd_requirements_)
        overall_score ==
          OverallScore(total_matched_requirements, total_possible_requirements)
    IN IF overall_score = ZeroDivisionError
          \/ \E category \in DOMAIN jd_requirements_ :
               category_scores[category] = ZeroDivisionError
         THEN Raised("ZeroDivisionError")
         ELSE Returned(category_scores, overall_score, strengths, gaps)

\* the dict object as a call leaves it that removes each matched req from its
\* list
ArgumentAfter_RemovesMatched(jd_requirements_, outcome) ==
  [category \in DOMAIN jd_requirements_ |->
     IF category \in DOMAIN outcome.gaps
       THEN outcome.gaps[category]
       ELSE jd_requirements_[category]]

\* the dict object passed as jd_requirements, as the call leaves it: the
\* function reads it and its lists and assigns to neither
ArgumentAfter(jd_requirements_, outcome) == jd_requirements_

\* ------------------------------------------------------------------------
\* extract_and_categorize_requirements
\* ------------------------------------------------------------------------

\* the characters of the model in the order of their code points, by which
\* sorted() compares strings
CodePoints ==
  <<"\t", "\n", " ", "#", "(", ")", "+", "-", ".", "/",
    "0","1","2","3","4","5","6","7","8","9",
    "A","B","C","D","E","F","G","H","I","J","K","L","M",
    "N","O","P","Q","R","S","T","U","V","W","X","Y","Z",
    "a","b","c","d","e","f","g","h","i","j","k","l","m",
    "n","o","p","q","r","s","t","u","v","w","x","y","z">>

Ord(c) == CHOOSE i \in 1..Len(CodePoints) : CodePoints[i] = c

Min(a, b) == IF a <= b THEN a ELSE b

\* a < b on str
StrLess(a, b) ==
  \E k \in 1..(Min(Len(a), Len(b)) + 1) :
    /\ \A i \in 1..(k - 1) : a[i] = b[i]
    /\ IF k > Len(a) THEN k <= Len(b)
       ELSE k <= Len(b) /\ Ord(a[k]) < Ord(b[k])

RECURSIVE Sorted(_)
\* sorted(list(found_in_category))
Sorted(S) ==
  IF S = {} THEN <<>>
  ELSE LET least == CHOOSE x \in S : \A y \in S : x = y \/ StrLess(x, y)
       IN <<least>> \o Sorted(S \ {least})

\* the categories dict: category name -> keywords
categories ==
  ("Years of Experience" :> <<
       <<"y","e","a","r","s"," ","e","x","p","e","r","i","e","n","c","e">>,
       <<"y","e","a","r"," ","e","x","p","e","r","i","e","n","c","e">>,
       <<"y","r","s"," ","e","x","p","e","r","i","e","n","c","e">>,
       <<"y","r","s"," ","e","x","p">>,
       <<"y","e","a","r","+">>>>)
  @@ ("Core Security Tools" :> <<
       <<"S","k","y","H","i","g","h">>,
       <<"T","r","e","l","l","i","x">>,
       <<"M","c","A","f","e","e"," ","W","e","b"," ","G","a","t","e","w","a","y">>,
       <<"F","i","r","e","E","y","e">>,
       <<"P","a","l","o"," ","A","l","t","o">>,
       <<"T","r","e","n","d"," ","M","i","c","r","o">>,
       <<"Z","s","c","a","l","e","r">>>>)
  @@ ("SIEM / Threat Detection" :> <<
       <<"S","I","E","M">>,
       <<"Q","R","a","d","a","r">>,
       <<"S","e","n","t","i","n","e","l">>,
       <<"S","p","l","u","n","k">>,
       <<"E","D","R">>,
       <<"t","h","r","e","a","t"," ","d","e","t","e","c","t","i","o","n">>,
       <<"t","h","r","e","a","t"," ","h","u","n","t","i","n","g">>,
       <<"a","l","e","r","t","i","n","g">>,
       <<"m","o","n","i","t","o","r","i","n","g">>>>)
  @@ ("Network / Infra Security" :> <<
       <<"D","M","Z">>,
       <<"p","r","o","x","y">>,
       <<"r","o","u","t","i","n","g">>,
       <<"S","S","L","/","T","L","S">>,
       <<"V","P","N">>,
       <<"f","i","r","e","w","a","l","l">>,
       <<"I","D","S","/","I","P","S">>,
       <<"n","e","t","w","o","r","k"," ","s","e","c","u","r","i","t","y">>,
       <<"i","n","f","r","a","s","t","r","u","c","t","u","r","e"," ","s","e","c","u","r","i","t","y">>,
       <<"c","i","s","c","o">>>>)
  @@ ("Vulnerability / Risk Mgmt" :> <<
       <<"v","u","l","n","e","r","a","b","i","l","i","t","y"," ","a","s","s","e","s","s","m","e","n","t">>,
       <<"r","i","s","k"," ","a","s","s","e","s","s","m","e","n","t">>,
       <<"r","i","s","k"," ","m","a","n","a","g","e","m","e","n","t">>,
       <<"v","u","l","n","e","r","a","b","i","l","i","t","y"," ","m","a","n","a","g","e","m","e","n","t">>,
       <<"q","u","a","l","y","s">>,
       <<"n","e","s","s","u","s">>,
       <<"r","a","p","i","d","7">>,
       <<"g","R","C">>>>)
  @@ ("Cloud Security" :> <<
       <<"c","l","o","u","d"," ","s","e","c","u","r","i","t","y">>,
       <<"a","w","s"," ","s","e","c","u","r","i","t","y">>,
       <<"a","z","u","r","e"," ","s","e","c","u","r","i","t","y">>,
       <<"g","c","p"," ","s","e","c","u","r","i","t","y">>,
       <<"C","A","S","B">>>>)
  @@ ("Certifications" :> <<
       <<"C","I","S","S","P">>,
       <<"C","C","N","A">>,
       <<"C","E","H">>,
       <<"O","S","C","P">>,
       <<"S","e","c","u","r","i","t","y","+">>,
       <<"F","o","r","t","i","n","e","t"," ","N","S","E">>,
       <<"M","i","c","r","o","s","o","f","t"," ","C","e","r","t","i","f","i","e","d">>,
       <<"I","S","O"," ","2","7","0","0","1"," ","A","u","d","i","t","o","r">>>>)
  @@ ("Programming / Scripting" :> <<
       <<"P","y","t","h","o","n">>,
       <<"B","a","s","h">>,
       <<"S","h","e","l","l">>,
       <<"P","o","w","e","r","S","h","e","l","l">>,
       <<"s","c","r","i","p","t","i","n","g">>,
       <<"a","u","t","o","m","a","t","i","o","n">>,
       <<"A","P","I">>,
       <<"K","Q","L">>,
       <<"R","e","g","e","x">>>>)
  @@ ("Audit / Compliance" :> <<
       <<"a","u","d","i","t">>,
       <<"c","o","m","p","l","i","a","n","c","e">>,
       <<"I","S","O"," ","2","7","0","0","1">>,
       <<"N","I","S","T">>,
       <<"S","O","C"," ","2">>,
       <<"f","r","a","m","e","w","o","r","k","s">>,
       <<"r","e","g","u","l","a","t","o","r","y">>>>)
  @@ ("Incident Response / Forensics" :> <<
       <<"i","n","c","i","d","e","n","t"," ","r","e","s","p","o","n","s","e">>,
       <<"f","o","r","e","n","s","i","c","s">>,
       <<"m","a","l","w","a","r","e"," ","a","n","a","l","y","s","i","s">>,
       <<"C","S","I","R","T">>,
       <<"p","l","a","y","b","o","o","k","s">>>>)
  @@ ("Communication / Soft Skills" :> <<
       <<"c","o","m","m","u","n","i","c","a","t","i","o","n">>,
       <<"t","e","a","m","w","o","r","k">>,
       <<"c","o","l","l","a","b","o","r","a","t","i","o","n">>,
       <<"s","t","a","k","e","h","o","l","d","e","r","s">>,
       <<"w","r","i","t","t","e","n">>,
       <<"v","e","r","b","a","l">>,
       <<"l","e","a","d","e","r","s","h","i","p">>,
       <<"m","e","n","t","o","r","i","n","g">>>>)
  @@ ("Architecture / Design" :> <<
       <<"a","r","c","h","i","t","e","c","t","u","r","e">>,
       <<"d","e","s","i","g","n">>,
       <<"p","l","a","n","n","i","n","g">>,
       <<"s","t","r","a","t","e","g","y">>,
       <<"S","M","E">>,
       <<"s","o","l","u","t","i","o","n">>>>)
  @@ ("Deployment / Operations" :> <<
       <<"d","e","p","l","o","y","m","e","n","t">>,
       <<"i","m","p","l","e","m","e","n","t","a","t","i","o","n">>,
       <<"o","p","e","r","a","t","e">>,
       <<"m","a","n","a","g","e">>,
       <<"c","o","n","f","i","g","u","r","e">>,
       <<"m","a","i","n","t","a","i","n">>,
       <<"l","i","f","e","c","y","c","l","e">>,
       <<"r","e","f","r","e","s","h">>,
       <<"t","r","o","u","b","l","e","s","h","o","o","t">>>>)

Category_Years == "Years of Experience"

\* nlp.Defaults.stop_words, the entries of the English stop list that are
\* words of the job descriptions of this model
StopWords == { <<"w","i","t","h">>, <<"t","h","e">> }

\* the entity labels the code accepts
AcceptedLabels == {"ORG", "PRODUCT", "SKILL", "CERTIFICATION"}

\* the categories that take an accepted entity without a keyword in it
EntityCategories == {"Core Security Tools", "Certifications"}

\* any(k.lower() in text for k in keywords)
AnyKeywordIn(keywords, text) ==
  \E i \in 1..Len(keywords) : Contains(text, Lower(keywords[i]))

\* found_in_category after the loop over the keywords of a category
FoundInCategory(category, cleaned_jd_text, noun_chunks, ents) ==
  LET keywords == categories[category] IN
    { keywords[i] : i \in {j \in 1..Len(keywords) :
                             Contains(cleaned_jd_text, Lower(keywords[j]))} }
    \cup { clean_text(chunk) : chunk \in
             { ch \in noun_chunks :
                 /\ AnyKeywordIn(keywords, clean_text(ch))
                 /\ Len(clean_text(ch)) > 3
                 /\ clean_text(ch) \notin StopWords } }
    \cup { clean_text(ent.text) : ent \in
             { e \in ents :
                 /\ e.label \in AcceptedLabels
                 /\ \/ AnyKeywordIn(keywords, clean_text(e.text))
                    \/ category \in EntityCategories
                 /\ Len(clean_text(e.text)) > 2
                 /\ clean_text(e.text) \notin StopWords } }

DigitChars == <<"0","1","2","3","4","5","6","7","8","9">>

DigitValue(c) == (CHOOSE i \in 1..10 : DigitChars[i] = c) - 1

RECURSIVE TextToInt(_)
\* int(y) for a run of digits
TextToInt(digits) ==
  IF digits = <<>> THEN 0
  ELSE 10 * TextToInt(SubSeq(digits, 1, Len(digits) - 1))
         + DigitValue(digits[Len(digits)])

RECURSIVE IntToText(_)
\* str(n) for n >= 0
IntToText(n) ==
  IF n < 10 THEN <<DigitChars[n + 1]>>
  ELSE IntToText(n \div 10) \o <<DigitChars[(n % 10) + 1]>>

\* the text has the literal at position p
HasAt(text, p, literal) ==
  /\ p + Len(literal) - 1 <= Len(text)
  /\ SubSeq(text, p, p + Len(literal) - 1) = literal

\* where \s* ends that starts at position p
SkipWhitespace(text, p) ==
  CHOOSE q \in p..(Len(text) + 1) :
    /\ \A i \in p..(q - 1) : text[i] \in Whitespace
    /\ q = Len(text) + 1 \/ text[q] \notin Whitespace

\* \s*years?\s*experience matches at position p
YearsTailAt(text, p) ==
  LET a == SkipWhitespace(text, p) IN
    /\ HasAt(text, a, <<"y","e","a","r">>)
    /\ LET b == IF HasAt(text, a + 4, <<"s">>) THEN a + 5 ELSE a + 4
           c == SkipWhitespace(text, b)
       IN HasAt(text, c, <<"e","x","p","e","r","i","e","n","c","e">>)

\* re.findall(r'(\d+)\s*years?\s*experience', text) as the set of int(y)
ExpMatches(text) ==
  { TextToInt(SubSeq(text, run[1], run[2])) : run \in
      { r \in (1..Len(text)) \X (1..Len(text)) :
          /\ r[1] <= r[2]
          /\ \A i \in r[1]..r[2] : text[i] \in Digits
          /\ r[1] = 1 \/ text[r[1] - 1] \notin Digits
          /\ r[2] = Len(text) \/ text[r[2] + 1] \notin Digits
          /\ YearsTailAt(text, r[2] + 1) } }

Max(S) == CHOOSE x \in S : \A y \in S : y <= x

\* f"{max_years}+ years experience"
YearsRequirement(max_years) ==
  IntToText(max_years)
    \o <<"+"," ","y","e","a","r","s"," ","e","x","p","e","r","i","e","n","c","e">>

\* "5+ years experience (implied)"
ImpliedRequirement ==
  <<"5","+"," ","y","e","a","r","s"," ","e","x","p","e","r","i","e","n","c","e"," ","(","i","m","p","l","i","e","d",")">>

\* the special handling for years of experience
WithYears(found, cleaned_jd_text) ==
  IF ExpMatches(cleaned_jd_text) # {}
    THEN [found EXCEPT ![Category_Years] =
            <<YearsRequirement(Max(ExpMatches(cleaned_jd_text)))>> \o @]
  ELSE IF \/ Contains(cleaned_jd_text, <<"s","e","n","i","o","r">>)
          \/ Contains(cleaned_jd_text, <<"l","e","a","d">>)
    THEN IF found[Category_Years] = <<>>
           THEN [found EXCEPT ![Category_Years] = Append(@, ImpliedRequirement)]
           ELSE found
  ELSE found

\* extract_and_categorize_requirements(jd_text), for the noun chunks and the
\* entities nlp gives for the cleaned text
extract_and_categorize_requirements(jd_text_, noun_chunks, ents) ==
  IF Falsy(jd_text_) THEN EmptyMap
  ELSE
    LET cleaned_jd_text == clean_text(jd_text_)
        found == [category \in DOMAIN categories |->
                    Sorted(FoundInCategory(category, cleaned_jd_text, noun_chunks, ents))]
        all == WithYears(found, cleaned_jd_text)
    IN [category \in {c \in DOMAIN all : all[c] # <<>>} |-> all[category]]

\* ------------------------------------------------------------------------
\* State
\* ------------------------------------------------------------------------

VARIABLES
  resume_text,       \* the resume text of the current evaluation
  jd_requirements,   \* the requirement dict of the current evaluation
  result,            \* what analyze_and_score_resume gave for them
  op,                \* the last step of the evaluation harness
  prev,              \* the result for the resume text before it was extended
  memo,              \* an earlier evaluation: its inputs and its result, and
                     \* whether another resume was evaluated since
  extended,          \* how often the resume text was extended
  pc,                \* where the run of the script is that the button started
  jd_file,           \* the uploaded job description
  resume_file,       \* the uploaded resume
  jd_text,           \* the text extracted from jd_file
  screening_threshold, \* the value of the slider
  shown              \* what the run has put on the page, in order

vars == <<resume_text, jd_requirements, result, op, prev, memo, extended,
          pc, jd_file, resume_file, jd_text, screening_threshold, shown>>

\* what only the evaluations of analyze_and_score_resume use
harnessVars == <<op, prev, memo, extended>>

\* what only the button flow uses
flowVars == <<pc, jd_file, resume_file, jd_text, screening_threshold, shown>>

\* ------------------------------------------------------------------------
\* Inputs of the evaluations
\* ------------------------------------------------------------------------

\* longest requirement list of a category
MaxTerms == 2

\* how often a resume text is extended
MaxExtend == 1

\* keywords of the categories dict
Term_VPN == <<"V","P","N">>
Term_SSLTLS == <<"S","S","L","/","T","L","S">>
Term_SOC2 == <<"S","O","C"," ","2">>

Terms == {Term_VPN, Term_SSLTLS, Term_SOC2}

Categories == {"Network / Infra Security", "Audit / Compliance"}

TermLists == UNION {[1..n -> Terms] : n \in 0..MaxTerms}

RequirementMaps == UNION {[D -> TermLists] : D \in SUBSET Categories}

ResumeTexts ==
  { None,
    <<>>,
    <<"v","p","n">>,
    <<"S","S","L","/","T","L","S"," ","(","V",")","P","N"," ","S","o","c">> }

Extensions ==
  { <<"\n","2">>,
    <<" ","V","P","N"," ">> }

\* no call of analyze_and_score_resume has returned yet
NoResult ==
  [exception |-> "not evaluated",
   category_scores |-> EmptyMap,
   overall_score |-> Zero,
   strengths |-> EmptyMap,
   gaps |-> EmptyMap]

NoMemo == [set |-> FALSE]

\* a file uploader that holds no file
NoFile == [uploaded |-> FALSE]

\* the slider: st.slider(..., 0, 100, 60)
MinThreshold == 0
MaxThreshold == 100
DefaultThreshold == 60

\* ------------------------------------------------------------------------
\* Evaluations of analyze_and_score_resume
\* ------------------------------------------------------------------------

Init ==
  /\ resume_text \in ResumeTexts
  /\ jd_requirements \in RequirementMaps
  /\ result = NoResult
  /\ op = "input"
  /\ prev = NoResult
  /\ memo = NoMemo
  /\ extended = 0
  /\ pc = "start"
  /\ jd_file = NoFile
  /\ resume_file = NoFile
  /\ jd_text = None
  /\ screening_threshold = DefaultThreshold
  /\ shown = <<>>

\* one call analyze_and_score_resume(resume_text, jd_requirements)
Analyze ==
  /\ op = "input"
  /\ LET outcome == analyze_and_score_resume(resume_text, jd_requirements) IN
       /\ result' = outcome
       /\ jd_requirements' = ArgumentAfter(jd_requirements, outcome)
  /\ op' = "analyzed"
  /\ memo' = IF memo.set /\ memo.resume_text # resume_text
              THEN [memo EXCEPT !.between = TRUE]
              ELSE memo
  /\ UNCHANGED <<resume_text, prev, extended>>
  /\ UNCHANGED flowVars

\* the resume text gets further content, after or before what it has, and is
\* evaluated again
ExtendResume(extra, atEnd) ==
  /\ op \in {"analyzed", "extended"}
  /\ extended < MaxExtend
  /\ ~memo.set
  /\ resume_text # None
  /\ resume_text' = IF atEnd THEN resume_text \o extra ELSE extra \o resume_text
  /\ prev' = result
  /\ LET outcome == analyze_and_score_resume(resume_text', jd_requirements) IN
       /\ result' = outcome
       /\ jd_requirements' = ArgumentAfter(jd_requirements, outcome)
  /\ op' = "extended"
  /\ extended' = extended + 1
  /\ UNCHANGED memo
  /\ UNCHANGED flowVars

\* the evaluation just made is kept for a later comparison
Remember ==
  /\ op = "analyzed"
  /\ ~memo.set
  /\ memo' = [set |-> TRUE, resume_text |-> resume_text,
              jd_requirements |-> jd_requirements, result |-> result,
              between |-> FALSE]
  /\ UNCHANGED <<resume_text, jd_requirements, result, op, prev, extended>>
  /\ UNCHANGED flowVars

\* another resume is put up for evaluation against the same dict
NewResume(text) ==
  /\ op \in {"analyzed", "extended"}
  /\ resume_text' = text
  /\ result' = NoResult
  /\ prev' = NoResult
  /\ op' = "input"
  /\ extended' = 0
  /\ UNCHANGED <<jd_requirements, memo>>
  /\ UNCHANGED flowVars

Next ==
  \/ Analyze
  \/ \E extra \in Extensions, atEnd \in BOOLEAN : ExtendResume(extra, atEnd)
  \/ Remember
  \/ \E text \in ResumeTexts : NewResume(text)

Spec == Init /\ [][Next]_vars

\* ------------------------------------------------------------------------
\* Properties of analyze_and_score_resume
\* ------------------------------------------------------------------------

\* an evaluation has been made for resume_text and jd_requirements
Evaluated == op \in {"analyzed", "extended"}

\* the matched and the missing list of a category, empty when the result
\* has no entry for it
MatchedList(r, category) ==
  IF category \in DOMAIN r.strengths THEN r.strengths[category] ELSE <<>>

MissingList(r, category) ==
  IF category \in DOMAIN r.gaps THEN r.gaps[category] ELSE <<>>

\* strengths[category] and gaps[category] exist and split the category's terms
Partitions(r, requirements, category) ==
  /\ category \in DOMAIN r.strengths
  /\ category \in DOMAIN r.gaps
  /\ \A term \in Range(requirements[category]) :
       (term \in Range(r.strengths[category])) # (term \in Range(r.gaps[category]))
  /\ Range(r.strengths[category]) \cup Range(r.gaps[category])
       \subseteq Range(requirements[category])
  /\ Len(r.strengths[category]) + Len(r.gaps[category]) = Len(requirements[category])

\* C1, as claimed: for every resume text and every requirement map, in every
\* category the matched and the missing list partition the category's terms.
C1_PartitionEveryText ==
  Evaluated =>
    \A category \in DOMAIN jd_requirements :
      Partitions(result, jd_requirements, category)

\* C1, amended: for every non-empty resume text and every requirement map, in
\* every category the matched and the missing list partition the category's
\* terms: each term is in exactly one of the two lists and neither list holds
\* anything else.
C1_Partition ==
  (Evaluated /\ ~Falsy(resume_text)) =>
    \A category \in DOMAIN jd_requirements :
      Partitions(result, jd_requirements, category)

C1_Witness ==
  /\ Evaluated
  /\ ~Falsy(resume_text)
  /\ \E category \in DOMAIN jd_requirements :
       /\ Partitions(result, jd_requirements, category)
       /\ result.strengths[category] # <<>>
       /\ result.gaps[category] # <<>>

\* 0 <= score <= 100
InPercentRange(score) ==
  /\ score.den > 0
  /\ 0 <= score.num
  /\ score.num <= 100 * score.den

\* the number of requirement terms of a map
TermCount(requirements) ==
  SumOver([category \in DOMAIN requirements |-> Len(requirements[category])],
          DOMAIN requirements)

\* C2: for every resume text and every requirement map with at least one
\* term, the overall score and every category score lie in 0..100.
C2_ScoreRange ==
  (Evaluated /\ TermCount(jd_requirements) > 0) =>
    /\ result.exception = "none"
    /\ InPercentRange(result.overall_score)
    /\ \A category \in DOMAIN result.category_scores :
         InPercentRange(result.category_scores[category])

C2_Witness ==
  /\ Evaluated
  /\ TermCount(jd_requirements) > 0
  /\ result.exception = "none"
  /\ result.overall_score = [num |-> 50, den |-> 1]
  /\ \E category \in DOMAIN result.category_scores :
       result.category_scores[category] = [num |-> 100, den |-> 1]

\* the result carries a component that says the score was not computable
NotComputableFlag(r) == "not_computable" \in DOMAIN r

\* C3, as claimed: a model with zero categories is reported as fit percent 0
\* together with an explicit "not computable" flag, without an exception.
C3_ZeroWithFlag ==
  (Evaluated /\ DOMAIN jd_requirements = {}) =>
    /\ result.exception = "none"
    /\ result.overall_score = Zero
    /\ NotComputableFlag(result)

\* C3, amended: a model without requirement terms (zero categories, or only
\* categories without terms) is evaluated to the overall score 0 and never to
\* an exception or a division by zero; with zero categories the returned
\* tuple is ({}, 0, {}, {}) and nothing in it flags the 0 as not computable.
C3_ZeroWithoutFlag ==
  (Evaluated /\ TermCount(jd_requirements) = 0) =>
    /\ result.exception = "none"
    /\ result.overall_score = Zero
    /\ ~NotComputableFlag(result)
    /\ DOMAIN jd_requirements = {} =>
         result = Returned(EmptyMap, Zero, EmptyMap, EmptyMap)

C3_Witness ==
  /\ Evaluated
  /\ DOMAIN jd_requirements = {}
  /\ ~Falsy(resume_text)
  /\ result = Returned(EmptyMap, Zero, EmptyMap, EmptyMap)

\* lowercase(text), the empty text for None
LowerText(text) == IF text = None THEN <<>> ELSE Lower(text)

\* C5, as claimed: a term is in the matched list exactly when lowercase(term)
\* is a substring of lowercase(resume text).
C5_SubstringOfLowercase ==
  Evaluated =>
    \A category \in DOMAIN jd_requirements :
      \A term \in Range(jd_requirements[category]) :
        (term \in Range(MatchedList(result, category)))
          <=> Contains(LowerText(resume_text), Lower(term))

\* C5, amended: for every non-empty resume text, a term is in the matched
\* list exactly when lowercase(term) is a substring of clean_text(resume
\* text): the lowercased text with every character outside a-z, 0-9,
\* whitespace, ".", "-", "+", "#" deleted, every whitespace run replaced by
\* one space and the ends trimmed.
C5_SubstringOfCleaned ==
  (Evaluated /\ ~Falsy(resume_text)) =>
    \A category \in DOMAIN jd_requirements :
      \A term \in Range(jd_requirements[category]) :
        (term \in Range(MatchedList(result, category)))
          <=> Contains(clean_text(resume_text), Lower(term))

\* a term matched through the cleaning, and a term the cleaning hides
C5_Witness ==
  /\ Evaluated
  /\ ~Falsy(resume_text)
  /\ \E category \in DOMAIN jd_requirements :
       \E term \in Range(jd_requirements[category]) :
         /\ term \in Range(MatchedList(result, category))
         /\ ~Contains(LowerText(resume_text), Lower(term))

\* the score of a category, 0 when the result has no entry for it
CategoryScoreOf(r, category) ==
  IF category \in DOMAIN r.category_scores THEN r.category_scores[category] ELSE Zero

\* C6: for a fixed requirement map, extending the resume text never lowers a
\* category's matched count or score or the overall score, and no term that
\* was matched becomes missing.
C6_Monotone ==
  op = "extended" =>
    /\ result.exception = "none"
    /\ ScoreLeq(prev.overall_score, result.overall_score)
    /\ \A category \in DOMAIN jd_requirements :
         /\ Range(MatchedList(prev, category)) \subseteq Range(MatchedList(result, category))
         /\ Range(MatchedList(prev, category)) \cap Range(MissingList(result, category)) = {}
         /\ Len(MatchedList(prev, category)) <= Len(MatchedList(result, category))
         /\ ScoreLeq(CategoryScoreOf(prev, category), CategoryScoreOf(result, category))

\* an extension that kept a match and added one
C6_Witness ==
  /\ op = "extended"
  /\ ~ScoreLeq(result.overall_score, prev.overall_score)
  /\ \E category \in DOMAIN jd_requirements :
       /\ MatchedList(prev, category) # <<>>
       /\ Len(MatchedList(prev, category)) < Len(MatchedList(result, category))

\* the step is a call of analyze_and_score_resume
IsEvaluation == (op = "input" /\ op' = "analyzed") \/ extended' = extended + 1

RECURSIVE ProdOver(_, _)
ProdOver(f, S) ==
  IF S = {} THEN 1
  ELSE LET c == CHOOSE x \in S : TRUE IN f[c] * ProdOver(f, S \ {c})

\* a common denominator of the category scores of a result
CommonDen(r) ==
  ProdOver([category \in DOMAIN r.category_scores |-> r.category_scores[category].den],
           DOMAIN r.category_scores)

\* the sum of weight[category] * category_scores[category], times CommonDen(r)
WeightedScoreSum(r, weight) ==
  SumOver([category \in DOMAIN r.category_scores |->
             weight[category] * r.category_scores[category].num
               * (CommonDen(r) \div r.category_scores[category].den)],
          DOMAIN r.category_scores)

\* overall_score = (sum of weight * category score) / (sum of weight)
IsWeightedMean(r, weight) ==
  r.overall_score.num * SumOver(weight, DOMAIN r.category_scores) * CommonDen(r)
    = r.overall_score.den * WeightedScoreSum(r, weight)

\* every category of the map has a term, and there is a category
NonEmptyCategories(requirements) ==
  /\ DOMAIN requirements # {}
  /\ \A category \in DOMAIN requirements : requirements[category] # <<>>

\* C9, as claimed: for a map with non-empty categories the overall score is
\* the mean of the category scores, every category weighing the same.
C9_MeanOfCategoryScores ==
  (Evaluated /\ NonEmptyCategories(jd_requirements)) =>
    IsWeightedMean(result, [category \in DOMAIN result.category_scores |-> 1])

\* C9, amended: for a map with non-empty categories the overall score is
\* 100 * (terms matched in all categories) / (terms in all categories), which
\* is the mean of the category scores with every category weighted by its
\* number of terms.
C9_TermWeightedMean ==
  (Evaluated /\ NonEmptyCategories(jd_requirements)) =>
    /\ result.exception = "none"
    /\ IsWeightedMean(result,
         [category \in DOMAIN result.category_scores |-> Len(jd_requirements[category])])
    /\ ~Falsy(resume_text) =>
         /\ DOMAIN result.category_scores = DOMAIN jd_requirements
         /\ result.overall_score.num * TermCount(jd_requirements)
              = result.overall_score.den * 100
                  * SumOver([category \in DOMAIN jd_requirements |->
                               Len(result.strengths[category])],
                            DOMAIN jd_requirements)

\* categories of different size whose scores differ
C9_Witness ==
  /\ Evaluated
  /\ NonEmptyCategories(jd_requirements)
  /\ ~Falsy(resume_text)
  /\ IsWeightedMean(result,
       [category \in DOMAIN result.category_scores |-> Len(jd_requirements[category])])
  /\ ~IsWeightedMean(result, [category \in DOMAIN result.category_scores |-> 1])

\* ------------------------------------------------------------------------
\* Text extraction
\* ------------------------------------------------------------------------

RECURSIVE PdfText(_)
\* the loop over reader.pages: text += page_text + "\n" for a page with text
PdfText(pages) ==
  IF pages = <<>> THEN <<>>
  ELSE IF Falsy(Head(pages)) THEN PdfText(Tail(pages))
  ELSE Head(pages) \o <<"\n">> \o PdfText(Tail(pages))

\* extract_text_from_pdf(file_obj); a file that is not readable raises in
\* PdfReader
extract_text_from_pdf(file) ==
  IF ~file.readable THEN None
  ELSE LET text == PdfText(file.parts) IN
    IF text # <<>> THEN Strip(text) ELSE None

RECURSIVE DocxText(_)
\* the loop over document.paragraphs: text += paragraph.text + "\n"
DocxText(paragraphs) ==
  IF paragraphs = <<>> THEN <<>>
  ELSE Head(paragraphs) \o <<"\n">> \o DocxText(Tail(paragraphs))

\* extract_text_from_docx(file_obj); a file that is not readable raises in
\* Document
extract_text_from_docx(file) ==
  IF ~file.readable THEN None
  ELSE LET text == DocxText(file.parts) IN
    IF text # <<>> THEN Strip(text) ELSE None

\* the text of an uploaded file by the extension of its name
ExtractText(file) ==
  LET extension == Lower(file.extension) IN
    IF extension = <<"p","d","f">> THEN extract_text_from_pdf(file)
    ELSE IF extension = <<"d","o","c","x">> THEN extract_text_from_docx(file)
    ELSE None

\* ------------------------------------------------------------------------
\* Inputs of the button flow
\* ------------------------------------------------------------------------

\* how many noun chunks and entities nlp reports for a job description
MaxSpans == 1

File(extension, readable, parts) ==
  [uploaded |-> TRUE, extension |-> extension, readable |-> readable, parts |-> parts]

Pdf == <<"p","d","f">>
PdfUpper == <<"P","D","F">>
Docx == <<"d","o","c","x">>

JdFiles ==
  { File(Pdf, TRUE, << <<"S","e","n","i","o","r"," ","V","P","N"," ","l","e","a","d">> >>),
    File(Docx, TRUE, << <<"3"," ","y","e","a","r","s">>,
                        <<"e","x","p","e","r","i","e","n","c","e"," ","C","I","S","S","P">> >>),
    File(PdfUpper, TRUE, << <<"S","S","L","/","T","L","S">> >>),
    File(Docx, TRUE, << <<>> >>),
    File(Pdf, FALSE, <<>>) }

ResumeFiles ==
  { File(Pdf, TRUE, << <<"V","P","N",","," ","5","+"," ","y","e","a","r","s"," ","e","x","p","e","r","i","e","n","c","e"," ","(","i","m","p","l","i","e","d",")">> >>),
    File(Docx, TRUE, << <<"3","+"," ","Y","e","a","r","s"," ","E","x","p","e","r","i","e","n","c","e">>,
                        <<"c","i","s","s","p">> >>),
    File(PdfUpper, TRUE, << <<"C","I","S","S","P"," ","(","2","0","2","0",")">> >>),
    File(Docx, TRUE, << <<"(",")">> >>),
    File(Pdf, TRUE, << <<>>, <<>> >>),
    File(Docx, FALSE, <<>>) }

\* the slider values of the model
Thresholds == {MinThreshold, 33, 34, 50, 51, DefaultThreshold, MaxThreshold}

\* the texts of the word spans of a cleaned text
SpanTexts(text) ==
  { SubSeq(text, span[1], span[2]) : span \in
      { sp \in (1..Len(text)) \X (1..Len(text)) :
          /\ sp[1] <= sp[2]
          /\ text[sp[1]] # " " /\ text[sp[2]] # " "
          /\ sp[1] = 1 \/ text[sp[1] - 1] = " "
          /\ sp[2] = Len(text) \/ text[sp[2] + 1] = " " } }

\* the labels of the spans nlp reports: noun chunks, and entities of a label
\* the code accepts or of one it does not
SpanLabels == {"NOUN_CHUNK", "ORG", "PERSON"}

RECURSIVE SubsetsUpTo(_, _)
SubsetsUpTo(S, k) ==
  IF k = 0 THEN {{}}
  ELSE LET smaller == SubsetsUpTo(S, k - 1) IN
    smaller \cup {T \cup {x} : T \in smaller, x \in S}

\* what nlp(cleaned_jd_text) may report: up to MaxSpans labelled spans
NlpOutputs(cleaned_jd_text) ==
  SubsetsUpTo({[text |-> span, label |-> label] :
                 span \in SpanTexts(cleaned_jd_text), label \in SpanLabels},
              MaxSpans)

\* jd_doc.noun_chunks and jd_doc.ents
NounChunks(doc) == {span.text : span \in {sp \in doc : sp.label = "NOUN_CHUNK"}}

Ents(doc) == {sp \in doc : sp.label # "NOUN_CHUNK"}

\* ------------------------------------------------------------------------
\* The run that "Perform Detailed Analysis" starts
\* ------------------------------------------------------------------------

\* the branch without the test of the resume text
TextsBranch_JdOnly(jd_text_, resume_text_) ==
  IF Falsy(jd_text_) THEN "error: no JD text" ELSE "analysis"

\* the branch of "if not jd_text ... elif not resume_text ... else"
TextsBranch(jd_text_, resume_text_) ==
  IF Falsy(jd_text_) THEN "error: no JD text"
  ELSE IF Falsy(resume_text_) THEN "error: no resume text"
  ELSE "analysis"

\* not any(jd_requirements.values())
NoRequirements(requirements) ==
  ~\E category \in DOMAIN requirements : requirements[category] # <<>>

\* the screening decision: overall_score >= screening_threshold
ScreenedIn(overall_score, threshold) == ScoreGeqInt(overall_score, threshold)

\* the feedback branch with a strict bound: overall_score > screening_threshold
FeedbackAbove_Strict(overall_score, threshold) ==
  overall_score.num > threshold * overall_score.den

\* the branch of the transparent feedback: overall_score >= screening_threshold
FeedbackAbove(overall_score, threshold) == ScoreGeqInt(overall_score, threshold)

\* any(d.values()) for a dict of lists
AnyValue(d) == \E category \in DOMAIN d : d[category] # <<>>

FlowInit ==
  /\ pc = "start"
  /\ jd_file = NoFile
  /\ resume_file = NoFile
  /\ jd_text = None
  /\ resume_text = None
  /\ jd_requirements = EmptyMap
  /\ result = NoResult
  /\ screening_threshold = DefaultThreshold
  /\ shown = <<>>
  /\ op = "input"
  /\ prev = NoResult
  /\ memo = NoMemo
  /\ extended = 0

\* a widget is changed while no run is under way: the script runs again from
\* the top with analyze_button False and shows no result
Rerun ==
  /\ pc \in {"start", "done"}
  /\ pc' = "start"
  /\ jd_text' = None
  /\ resume_text' = None
  /\ jd_requirements' = EmptyMap
  /\ result' = NoResult
  /\ shown' = <<>>
  /\ UNCHANGED harnessVars

\* a file, or none, is put into the job description uploader
UploadJd(file) ==
  /\ Rerun
  /\ jd_file' = file
  /\ UNCHANGED <<resume_file, screening_threshold>>

\* a file, or none, is put into the resume uploader
UploadResume(file) ==
  /\ Rerun
  /\ resume_file' = file
  /\ UNCHANGED <<jd_file, screening_threshold>>

\* the slider is moved
MoveSlider(threshold) ==
  /\ Rerun
  /\ screening_threshold' = threshold
  /\ UNCHANGED <<jd_file, resume_file>>

\* the button is pressed with the uploaders and the slider as they are
Click ==
  /\ pc \in {"start", "done"}
  /\ jd_text' = None
  /\ resume_text' = None
  /\ jd_requirements' = EmptyMap
  /\ result' = NoResult
  /\ IF ~jd_file.uploaded \/ ~resume_file.uploaded
       THEN /\ shown' = <<"warning: upload both files">>
            /\ pc' = "done"
       ELSE /\ shown' = <<>>
            /\ pc' = "extract_jd"
  /\ UNCHANGED <<jd_file, resume_file, screening_threshold>>
  /\ UNCHANGED harnessVars

ExtractJdText ==
  /\ pc = "extract_jd"
  /\ jd_text' = ExtractText(jd_file)
  /\ pc' = "extract_resume"
  /\ UNCHANGED <<resume_text, jd_requirements, result, jd_file, resume_file,
                 screening_threshold, shown>>
  /\ UNCHANGED harnessVars

ExtractResumeText ==
  /\ pc = "extract_resume"
  /\ resume_text' = ExtractText(resume_file)
  /\ pc' = "check_texts"
  /\ UNCHANGED <<jd_text, jd_requirements, result, jd_file, resume_file,
                 screening_threshold, shown>>
  /\ UNCHANGED harnessVars

CheckTexts ==
  /\ pc = "check_texts"
  /\ LET branch == TextsBranch(jd_text, resume_text) IN
       IF branch = "analysis"
         THEN /\ pc' = "requirements"
              /\ UNCHANGED shown
         ELSE /\ pc' = "done"
              /\ shown' = Append(shown, branch)
  /\ UNCHANGED <<jd_text, resume_text, jd_requirements, result, jd_file,
                 resume_file, screening_threshold>>
  /\ UNCHANGED harnessVars

ExtractRequirements(doc) ==
  /\ pc = "requirements"
  /\ jd_requirements' =
       extract_and_categorize_requirements(jd_text, NounChunks(doc), Ents(doc))
  /\ IF NoRequirements(jd_requirements')
       THEN /\ shown' = shown \o <<"warning: no requirements identified",
                                   "info: enhance the extraction">>
            /\ pc' = "done"
       ELSE /\ pc' = "analyze"
            /\ UNCHANGED shown
  /\ UNCHANGED <<jd_text, resume_text, result, jd_file, resume_file,
                 screening_threshold>>
  /\ UNCHANGED harnessVars

AnalyzeResume ==
  /\ pc = "analyze"
  /\ LET outcome == analyze_and_score_resume(resume_text, jd_requirements) IN
       /\ result' = outcome
       /\ jd_requirements' = ArgumentAfter(jd_requirements, outcome)
       /\ pc' = IF outcome.exception = "none" THEN "show_score" ELSE "crashed"
  /\ UNCHANGED <<jd_text, resume_text, jd_file, resume_file,
                 screening_threshold, shown>>
  /\ UNCHANGED harnessVars

ShowScore ==
  /\ pc = "show_score"
  /\ shown' = Append(shown, "overall match score")
  /\ pc' = "screening"
  /\ UNCHANGED <<jd_text, resume_text, jd_requirements, result, jd_file,
                 resume_file, screening_threshold>>
  /\ UNCHANGED harnessVars

ScreeningDecision ==
  /\ pc = "screening"
  /\ shown' = Append(shown,
       IF ScreenedIn(result.overall_score, screening_threshold)
         THEN "success: screened in"
         ELSE "warning: not screened in")
  /\ pc' = "breakdown"
  /\ UNCHANGED <<jd_text, resume_text, jd_requirements, result, jd_file,
                 resume_file, screening_threshold>>
  /\ UNCHANGED harnessVars

Breakdown ==
  /\ pc = "breakdown"
  /\ shown' = Append(shown,
       IF DOMAIN result.category_scores # {}
         THEN "breakdown table"
         ELSE "info: no categories could be analyzed")
  /\ pc' = "feedback"
  /\ UNCHANGED <<jd_text, resume_text, jd_requirements, result, jd_file,
                 resume_file, screening_threshold>>
  /\ UNCHANGED harnessVars

Feedback ==
  /\ pc = "feedback"
  /\ shown' =
       IF FeedbackAbove(result.overall_score, screening_threshold)
         THEN shown \o <<"feedback: above the threshold",
                         IF AnyValue(result.strengths)
                           THEN "feedback: strengths"
                           ELSE "feedback: aligns well">>
         ELSE shown \o <<"feedback: below the threshold",
                         IF AnyValue(result.gaps)
                           THEN "feedback: gaps"
                           ELSE "feedback: general lack">>
  /\ pc' = "done"
  /\ UNCHANGED <<jd_text, resume_text, jd_requirements, result, jd_file,
                 resume_file, screening_threshold>>
  /\ UNCHANGED harnessVars

FlowNext ==
  \/ \E file \in JdFiles \cup {NoFile} : UploadJd(file)
  \/ \E file \in ResumeFiles \cup {NoFile} : UploadResume(file)
  \/ \E threshold \in Thresholds : MoveSlider(threshold)
  \/ Click
  \/ ExtractJdText
  \/ ExtractResumeText
  \/ CheckTexts
  \/ \E doc \in NlpOutputs(clean_text(jd_text)) : ExtractRequirements(doc)
  \/ AnalyzeResume
  \/ ShowScore
  \/ ScreeningDecision
  \/ Breakdown
  \/ Feedback

FlowSpec == FlowInit /\ [][FlowNext]_vars

\* ------------------------------------------------------------------------
\* Properties of the button flow
\* ------------------------------------------------------------------------

IsShown(message) == \E i \in 1..Len(shown) : shown[i] = message

\* the run has put the score or a screening verdict on the page
ScoreOrVerdictShown ==
  \/ IsShown("overall match score")
  \/ IsShown("success: screened in")
  \/ IsShown("warning: not screened in")

\* the run has put an error or a warning on the page that is no verdict
ErrorOrWarningShown ==
  \/ IsShown("warning: upload both files")
  \/ IsShown("error: no JD text")
  \/ IsShown("error: no resume text")
  \/ IsShown("warning: no requirements identified")

\* both texts were extracted and the job description gave a requirement
CanEvaluate ==
  /\ jd_text # None /\ jd_text # <<>>
  /\ resume_text # None /\ resume_text # <<>>
  /\ \E category \in DOMAIN jd_requirements : jd_requirements[category] # <<>>

\* the run is at the call of analyze_and_score_resume or behind it
ScoringReached ==
  \/ pc \in {"analyze", "show_score", "screening", "breakdown", "feedback", "crashed"}
  \/ result # NoResult

\* C4: the scoring step and the display of a score or verdict are reached
\* only when both extracted texts are non-empty and the job description gave
\* at least one requirement; every other run ends with an error or a warning
\* and shows no score.
C4_CannotEvaluate ==
  /\ (ScoringReached \/ ScoreOrVerdictShown) => CanEvaluate
  /\ (pc = "done" /\ ~CanEvaluate) => (ErrorOrWarningShown /\ ~ScoreOrVerdictShown)
  /\ pc # "crashed"

\* a run whose resume gave no text
C4_Witness ==
  /\ pc = "done"
  /\ jd_text # None /\ jd_text # <<>>
  /\ Falsy(resume_text)
  /\ resume_file.uploaded
  /\ shown = <<"error: no resume text">>
  /\ result = NoResult

\* C8: a score equal to the threshold is screened in and a score below it is
\* not, for every threshold, and the feedback shown in the run is that of the
\* verdict shown in it.
C8_InclusiveThreshold ==
  /\ IsShown("success: screened in") =>
       result.overall_score.num >= screening_threshold * result.overall_score.den
  /\ IsShown("warning: not screened in") =>
       result.overall_score.num < screening_threshold * result.overall_score.den
  /\ IsShown("feedback: above the threshold") => IsShown("success: screened in")
  /\ IsShown("feedback: below the threshold") => IsShown("warning: not screened in")
  /\ (pc = "done" /\ IsShown("overall match score")) =>
       /\ IsShown("success: screened in") # IsShown("warning: not screened in")
       /\ IsShown("feedback: above the threshold") # IsShown("feedback: below the threshold")

\* a run whose score is the threshold, between the ends of the slider
C8_Witness ==
  /\ pc = "done"
  /\ IsShown("success: screened in")
  /\ screening_threshold = 50
  /\ result.overall_score = [num |-> 50, den |-> 1]
  /\ IsShown("feedback: above the threshold")

RECURSIVE JoinLines(_)
\* "\n".join(lines)
JoinLines(lines) ==
  IF lines = <<>> THEN <<>>
  ELSE IF Len(lines) = 1 THEN Head(lines)
  ELSE Head(lines) \o <<"\n">> \o JoinLines(Tail(lines))

RECURSIVE AllTerms(_, _)
\* the terms of the categories S of a requirement map, one list
AllTerms(requirements, S) ==
  IF S = {} THEN <<>>
  ELSE LET c == CHOOSE x \in S : TRUE IN
    requirements[c] \o AllTerms(requirements, S \ {c})

\* the resume that lists every requirement of the map as it is written
Listing(requirements) == JoinLines(AllTerms(requirements, DOMAIN requirements))

\* the resume texts tried for a requirement map
CandidateResumes(requirements) ==
  {Listing(requirements), Lower(Listing(requirements))}
    \cup {ExtractText(file) : file \in ResumeFiles}
    \cup ResumeTexts

\* the evaluation matches every requirement and scores 100
FullMatch(outcome) ==
  /\ outcome.exception = "none"
  /\ outcome.overall_score = [num |-> 100, den |-> 1]
  /\ \A category \in DOMAIN outcome.gaps : outcome.gaps[category] = <<>>

\* C10: for every job description whose extracted requirement map is not
\* empty there is a resume text that matches every extracted requirement and
\* scores 100.
C10_Satisfiable ==
  (pc = "analyze" /\ DOMAIN jd_requirements # {}) =>
    \E text \in CandidateResumes(jd_requirements) :
      FullMatch(analyze_and_score_resume(text, jd_requirements))

====
